---- MODULE Spec2Model ----
(***************************************************************************)
(* The site-mirroring engine of src/downloader.py: WebDownloader driven by *)
(* DownloaderThread.run.  One run is modelled: the resource-counting pass, *)
(* the page crawl, the submission of the resource queue to the thread pool,*)
(* the resource workers, the final rewrite and the finished signal, with   *)
(* the front end's stop / pause / resume calls arriving at any time.       *)
(***************************************************************************)
EXTENDS Integers, Sequences, FiniteSets, TLC

(***************************************************************************)
(* Bounds of the model.                                                    *)
(***************************************************************************)
\* How many requests of one run (page loads, stylesheet fetches, robots
\* reads, HEAD, GET) may end in anything but a plain success.
MaxFailures == 2

\* The largest value of the counters total_resources and downloaded_resources
\* that the progress computation is examined for.
MaxCount == 50

(***************************************************************************)
(* The origin: a small site.  URLs are strings; urlparse is the table      *)
(* URLInfo.                                                                *)
(***************************************************************************)
SeedA  == "http://a/"
PageA1 == "http://a/p1"
PageA2 == "http://a/p2"
PageA3 == "http://a/p3"
SeedB  == "http://b/"
Mail   == "mailto:m"
Css    == "http://a/s.css"
Img    == "http://a/i.png"
Up     == "http://a/../../u.png"
Dyn    == "http://a/pic"
Sub    == "http://s.a/"
SeedB2 == "http://b/index.html"

PageURLs     == {SeedA, PageA1, PageA2, PageA3, SeedB, Mail, Sub, SeedB2}
ResourceURLs == {Css, Img, Up, Dyn}
URLs         == PageURLs \cup ResourceURLs

\* urlparse(url): scheme, netloc and the extension of the path; frags are the
\* substrings of the URL that an exclusion pattern of a run can be.
URLInfo(u) ==
  CASE u = SeedA  -> [scheme |-> "http", netloc |-> "a", ext |-> "", frags |-> {"http://a/"}]
    [] u = PageA1 -> [scheme |-> "http", netloc |-> "a", ext |-> "", frags |-> {"http://a/", "p1"}]
    [] u = PageA2 -> [scheme |-> "http", netloc |-> "a", ext |-> "", frags |-> {"http://a/", "p2"}]
    [] u = PageA3 -> [scheme |-> "http", netloc |-> "a", ext |-> "", frags |-> {"http://a/", "p3"}]
    [] u = SeedB  -> [scheme |-> "http", netloc |-> "b", ext |-> "", frags |-> {"http://b/"}]
    [] u = Mail   -> [scheme |-> "mailto", netloc |-> "", ext |-> "", frags |-> {"mailto"}]
    [] u = Css    -> [scheme |-> "http", netloc |-> "a", ext |-> ".css", frags |-> {"http://a/", "s.css"}]
    [] u = Img    -> [scheme |-> "http", netloc |-> "a", ext |-> ".png", frags |-> {"http://a/", "i.png"}]
    [] u = Up     -> [scheme |-> "http", netloc |-> "a", ext |-> ".png", frags |-> {"http://a/", "u.png"}]
    [] u = Dyn    -> [scheme |-> "http", netloc |-> "a", ext |-> "", frags |-> {"http://a/", "pic"}]
    [] u = Sub    -> [scheme |-> "http", netloc |-> "s.a", ext |-> "", frags |-> {"http://s.a/"}]
    [] u = SeedB2 -> [scheme |-> "http", netloc |-> "b", ext |-> ".html", frags |-> {"http://b/", "index.html"}]

\* urlparse(url).path, split at its slashes after the leading one: "/" is
\* <<"">> and "/p1" is <<"p1">>.
URLPath(u) ==
  CASE u = SeedA  -> <<"">>
    [] u = PageA1 -> <<"p1">>
    [] u = PageA2 -> <<"p2">>
    [] u = PageA3 -> <<"p3">>
    [] u = SeedB  -> <<"">>
    [] u = Mail   -> <<"m">>
    [] u = Css    -> <<"s.css">>
    [] u = Img    -> <<"i.png">>
    [] u = Up     -> <<"..", "..", "u.png">>
    [] u = Dyn    -> <<"pic">>
    [] u = Sub    -> <<"">>
    [] u = SeedB2 -> <<"index.html">>

\* The anchors of a page, in document order, each resolved against the page.
PageAnchors(u) ==
  CASE u = SeedA  -> <<PageA1, Mail, SeedB>>
    [] u = PageA1 -> <<PageA2, SeedA>>
    [] u = PageA2 -> <<PageA3>>
    [] OTHER      -> <<>>

\* The <link rel="stylesheet"> references of a page, resolved and cleaned.
PageStylesheets(u) ==
  CASE u = SeedA  -> <<Css>>
    [] OTHER      -> <<>>

\* The stylesheet URLs of the site.
Stylesheets == {Css}

\* References as a page writes them, resolved by urljoin: one with a query
\* string and one with a fragment.
ImgV1  == "http://a/i.png?v=1"
UpTop  == "http://a/../../u.png#top"

\* parsed._replace(fragment=''), parsed._replace(query ='')
StripFragment(url) == IF url = UpTop THEN Up ELSE url
StripQuery(url)    == IF url = ImgV1 THEN Img ELSE url

\* clean_url(url): fragment and query are both replaced by ''.
clean_url(url) == StripQuery(StripFragment(url))

\* The <img src> references of a page, resolved against the page.
PageImageRefs(u) ==
  CASE u = SeedA  -> {Dyn}
    [] u = PageA1 -> {ImgV1}
    [] u = SeedB  -> {UpTop}
    [] OTHER      -> {}

\* The <img src> references of a page, resolved and cleaned.
PageImages(u) == {clean_url(r) : r \in PageImageRefs(u)}

\* How a page writes its reference to target in the href / src attribute:
\* as an absolute URL, as a reference relative to the page (ref holds its
\* segments) or as a root-relative reference.
Written(page, target) ==
  CASE page = SeedA  /\ target = Css    -> [form |-> "relative", ref |-> <<"s.css">>]
    [] page = PageA1 /\ target = Img    -> [form |-> "relative", ref |-> <<"i.png">>]
    [] page = PageA1 /\ target = PageA2 -> [form |-> "root", ref |-> <<"p2">>]
    [] OTHER                            -> [form |-> "absolute", ref |-> <<>>]

\* The url(...) and @import references of a stylesheet, resolved.
CssReferences(u) ==
  CASE u = Css -> {Img}
    [] OTHER   -> {}

\* The URLs the robots rules of their host disallow.
RobotsDisallowed == {PageA2}

\* Content-Type of a resource as the origin answers it.
ContentType(u) == IF u = Css THEN "text/css" ELSE "image/png"

\* Content-Length of a resource as the origin answers it, in the unit of
\* max_file_size.
ContentLength(u) == IF u = Img THEN 2 ELSE 1

(***************************************************************************)
(* The configurations of a run.                                            *)
(***************************************************************************)
DefaultConfig ==
  [ base_urls             |-> <<SeedA>>,
    max_depth             |-> 1,
    retries               |-> 2,
    concurrency           |-> 2,
    follow_external_links |-> FALSE,
    include_subdomains    |-> TRUE,
    robots_txt            |-> FALSE,
    exclusions            |-> {},
    resource_types        |-> {"css", "images"},
    max_pages             |-> 0,
    max_resources         |-> 0,
    max_images            |-> 0,
    max_file_size         |-> 0,
    ignore_mime_types     |-> {},
    download_structure    |-> "keep",
    remove_query_strings  |-> FALSE ]

Configs ==
  { DefaultConfig,
    [DefaultConfig EXCEPT !.max_depth = 0],
    [DefaultConfig EXCEPT !.max_depth = 2, !.concurrency = 1],
    [DefaultConfig EXCEPT !.base_urls = <<SeedA, SeedB>>, !.max_depth = 0],
    [DefaultConfig EXCEPT !.base_urls = <<SeedA, SeedA>>, !.max_depth = 0],
    [DefaultConfig EXCEPT !.follow_external_links = TRUE, !.concurrency = 1],
    [DefaultConfig EXCEPT !.exclusions = {"s.css"}],
    [DefaultConfig EXCEPT !.robots_txt = TRUE, !.max_depth = 2, !.concurrency = 1],
    [DefaultConfig EXCEPT !.retries = 0],
    [DefaultConfig EXCEPT !.max_file_size = 1, !.ignore_mime_types = {"text/css"},
                          !.max_depth = 0],
    [DefaultConfig EXCEPT !.max_resources = 1, !.max_depth = 0],
    [DefaultConfig EXCEPT !.max_pages = 1, !.concurrency = 1],
    [DefaultConfig EXCEPT !.download_structure = "flatten", !.concurrency = 1] }

(***************************************************************************)
(* State.                                                                  *)
(***************************************************************************)
VARIABLES
  cfg,                  \* the configuration of the run (immutable)
  stop_event,           \* threading.Event shared with the front end
  pause_event,          \* WebDownloader.pause_event (TRUE = set = running)
  visited_urls, counted_urls, total_resources, downloaded_resources,
  download_cache, failed_downloads, pages_crawled, images_downloaded,
  resource_queue,       \* the (url, page_url) tuples appended by the crawl
  pc,                   \* where download_websites stands
  seed,                 \* index of the next base_url of the current loop
  stack,                \* the frames of the recursive page functions
  unsubmitted,          \* what the loop over unique_resources has not reached
  pending,              \* the executor's work queue
  pool,                 \* the executor's worker threads
  finished,             \* the finished_download signal: <<>> or <<success>>
  failures,             \* requests of this run that did not plainly succeed
  loads,                \* per pass and URL: page loads, calls of _parse_css_resources
  writes,               \* file writes per URL
  lastProgress,         \* the last progress publication, and the counters then
  emitted,              \* per task, the statuses sent to resource_downloaded_callback
  message,              \* the message of the finished_download signal
  files,                \* the files written: local path -> the URL saved there and,
                        \* for a page, its href/src attributes
  stop_pressed,         \* HomeWidget.stop_download has run for the running thread
  ripper                \* the ImageRipper of the image ripper tab

engineVars == <<visited_urls, counted_urls, total_resources, downloaded_resources,
                download_cache, failed_downloads, pages_crawled, images_downloaded,
                resource_queue>>
mainVars   == <<pc, seed, stack, unsubmitted, finished>>
poolVars   == <<pending, pool>>
ghostVars  == <<failures, loads, writes, lastProgress, emitted, message, files>>
otherVars  == <<stop_pressed, ripper>>
vars == <<cfg, stop_event, pause_event, engineVars, mainVars, poolVars, ghostVars,
          otherVars>>

Workers == 1..cfg.concurrency
Passes  == {"count", "crawl"}

\* The tasks the executor can be given: (url, page_url).
Tasks   == ResourceURLs \X PageURLs

IdleWorker == [pc |-> "idle", url |-> "", page |-> "", attempt |-> 0, answer |-> "",
               seen |-> 0]
NoProgress == [value |-> -1, downloaded |-> 0, total |-> 0]

\* An ImageRipper that download_images was not called on: pc is where it
\* stands, stop its stop_event, what / attempt the fetch under way and its
\* turn of the retry loop, found the images extracted so far, i the index of
\* the image in work, progress the last value published (-1: none).
IdleRipper == [pc |-> "idle", stop |-> FALSE, what |-> "", attempt |-> 0,
               sheets |-> 0, found |-> 0, i |-> 0, progress |-> -1]

(***************************************************************************)
(* Pure helpers of WebDownloader.                                          *)
(***************************************************************************)
HttpSchemes == {"http", "https"}
ValidExtensions == {".css", ".js", ".png", ".jpg", ".jpeg", ".gif", ".svg", ".woff",
                    ".woff2", ".ttf", ".eot", ".pdf", ".docx", ".xlsx", ".pptx",
                    ".mp4", ".webm", ".ogg"}

should_stop_crawl ==
  \/ stop_event
  \/ cfg.max_pages # 0 /\ pages_crawled >= cfg.max_pages

should_stop_downloading_resources ==
  \/ cfg.max_resources # 0 /\ downloaded_resources >= cfg.max_resources
  \/ cfg.max_images # 0 /\ images_downloaded >= cfg.max_images

\* `exclusion in url` for some exclusion of the run.
Excluded(url) == \E e \in cfg.exclusions : e \in URLInfo(url).frags

\* The host test of _can_fetch: against the host of the first base URL.
HostRejected(url) ==
  LET base_domain   == URLInfo(cfg.base_urls[1]).netloc
      target_domain == URLInfo(url).netloc
  IN  \/ ~cfg.follow_external_links /\ target_domain # base_domain
      \/ ~cfg.include_subdomains /\ target_domain # base_domain

\* Whether _can_fetch(url) gets as far as reading robots.txt.
RobotsRead(url) ==
  ~stop_event /\ ~Excluded(url) /\ ~HostRejected(url) /\ cfg.robots_txt

\* _can_fetch(url); robots is how rp.read() ends: "ok" (the rules were
\* retrieved), "error" (the read raised: no connection, timeout) or "denied"
\* (the host answered robots.txt with status 401, 403 or 5xx: read() keeps
\* the HTTPError to itself, retrieves no rules, and rp.can_fetch() then
\* answers False for every URL).
_can_fetch(url, robots) ==
  IF stop_event THEN FALSE
  ELSE IF Excluded(url) THEN FALSE
  ELSE IF HostRejected(url) THEN FALSE
  ELSE IF ~cfg.robots_txt THEN TRUE
  ELSE IF robots = "error" THEN TRUE
  ELSE IF robots = "denied" THEN FALSE
  ELSE url \notin RobotsDisallowed

is_valid_resource_url(url) ==
  /\ URLInfo(url).scheme \in HttpSchemes
  /\ URLInfo(url).netloc # ""
  /\ URLInfo(url).ext \in ValidExtensions

\* SelectSeq with a predicate on URLs.
RECURSIVE Filter(_, _)
Filter(s, keep) ==
  IF s = <<>> THEN <<>>
  ELSE IF Head(s) \in keep THEN <<Head(s)>> \o Filter(Tail(s), keep)
  ELSE Filter(Tail(s), keep)

\* _find_linked_pages(soup, base_url): the loop stops at once when the crawl
\* is to stop; cross-host anchors are dropped unless external links are followed.
_find_linked_pages(base_url) ==
  IF should_stop_crawl THEN <<>>
  ELSE IF cfg.follow_external_links THEN PageAnchors(base_url)
  ELSE Filter(PageAnchors(base_url),
              {u \in URLs : URLInfo(u).netloc = URLInfo(base_url).netloc})

\* The stylesheets _parse_resources fetches through _parse_css_resources.
StylesheetsToParse(base_url) ==
  IF "css" \in cfg.resource_types
    THEN Filter(PageStylesheets(base_url), {u \in URLs : is_valid_resource_url(u)})
    ELSE <<>>

\* What the categories after the stylesheets add to the resources of a page.
OtherResources(base_url) ==
  IF "images" \in cfg.resource_types
    THEN {u \in PageImages(base_url) : is_valid_resource_url(u)}
    ELSE {}

\* _parse_css_resources(css_url) once the stylesheet was received.
_parse_css_resources(css_url) ==
  {u \in CssReferences(css_url) : is_valid_resource_url(u)}

\* The counter pairs (downloaded, total), downloaded up to MaxCount + 4 and
\* total up to MaxCount + 2, for which the double (downloaded / total) * 100
\* lies below the exact percentage, a whole number: 29 / 50 * 100 is
\* 57.99999999999999, which int() takes to 57.
RoundedBelow ==
  {<<23, 5>>, <<41, 5>>, <<46, 5>>, <<51, 5>>, <<23, 10>>, <<41, 10>>, <<46, 10>>,
   <<51, 10>>, <<23, 20>>, <<41, 20>>, <<46, 20>>, <<51, 20>>, <<29, 25>>,
   <<46, 40>>, <<29, 50>>}

\* int((downloaded / total) * 100), computed in doubles.
IntOfPercent(downloaded, total) ==
  (downloaded * 100) \div total - (IF <<downloaded, total>> \in RoundedBelow THEN 1 ELSE 0)

\* The percentage _update_progress publishes.
ProgressValue(downloaded, total) ==
  IF total = 0 THEN 100
  ELSE IF IntOfPercent(downloaded, total) > 100 THEN 100
  ELSE IntOfPercent(downloaded, total)

(***************************************************************************)
(* Local paths.  A path is the sequence of its segments, relative to the   *)
(* output directory (download_path).                                       *)
(***************************************************************************)
Last(s)  == s[Len(s)]
Front(s) == SubSeq(s, 1, Len(s) - 1)
Range(s) == {s[i] : i \in 1..Len(s)}

IndexHtml == "index.html"

\* os.path.splitext(path)[1] is not empty, by the last segment of the path.
HasExtension(segment) == segment \in {"s.css", "i.png", "u.png", IndexHtml}

\* _get_relative_path(url): the path a URL is saved under, query ignored and
\* the segments of the URL path taken as they are.
_get_relative_path(url) ==
  LET path == URLPath(url)
      full == IF Last(path) = "" THEN Append(Front(path), IndexHtml)
              ELSE IF ~HasExtension(Last(path)) THEN Append(path, IndexHtml)
              ELSE path
  IN  IF cfg.download_structure = "flatten"
        THEN <<URLInfo(url).netloc, Last(full)>>
        ELSE <<URLInfo(url).netloc>> \o full

\* What the file system makes of a path handed to open(): each ".." leaves
\* the directory reached so far; a ".." that remains leads above the output
\* directory.
RECURSIVE NormPath(_, _)
NormPath(reached, rest) ==
  IF rest = <<>> THEN reached
  ELSE IF Head(rest) = ".."
    THEN IF reached # <<>> /\ Last(reached) # ".."
           THEN NormPath(Front(reached), Tail(rest))
           ELSE NormPath(Append(reached, ".."), Tail(rest))
  ELSE NormPath(Append(reached, Head(rest)), Tail(rest))

Normalise(path) == NormPath(<<>>, path)

\* The path names a location inside the output directory.
UnderOutput(path) == Normalise(path) # <<>> /\ Head(Normalise(path)) # ".."

\* os.path.exists(os.path.join(download_path, local_path))
Exists(path) == \E p \in DOMAIN files : Normalise(p) = Normalise(path)

\* os.path.dirname(html_file_path)
Dir(path) == Front(path)

\* The files _final_rewrite_all_html visits: os.walk(download_path), names
\* ending in .html.
IsHtml(path) == UnderOutput(path) /\ Last(path) = IndexHtml

RECURSIVE CommonLen(_, _)
CommonLen(a, b) ==
  IF a = <<>> \/ b = <<>> THEN 0
  ELSE IF Head(a) # Head(b) THEN 0
  ELSE 1 + CommonLen(Tail(a), Tail(b))

\* os.path.relpath(path, start)
relpath(path, start) ==
  LET p == Normalise(path)
      d == Normalise(start)
      c == CommonLen(p, d)
  IN  [i \in 1..(Len(d) - c) |-> ".."] \o SubSeq(p, c + 1, Len(p))

\* The href / src attributes of a saved page, as page.content() holds them.
References(page) ==
  Range(PageAnchors(page)) \cup Range(PageStylesheets(page)) \cup PageImages(page)
PageAttrs(page) ==
  {[target |-> t, form |-> Written(page, t).form, ref |-> Written(page, t).ref] :
     t \in References(page)}

\* _rewrite_html_links, for one attribute of the file at html_file_path: a
\* value with an http(s) scheme whose local file exists becomes the path to
\* it from the directory of the HTML file; any other value stays.
Rewritten(attr, html_file_path) ==
  IF /\ attr.form = "absolute"
     /\ URLInfo(attr.target).scheme \in HttpSchemes
     /\ Exists(_get_relative_path(attr.target))
    THEN [attr EXCEPT !.form = "local",
                      !.ref = relpath(_get_relative_path(attr.target),
                                      Dir(html_file_path))]
    ELSE attr

\* open(local_path, 'w' / 'wb') and the write of what was fetched from url.
FileWritten(url, attrs) == (_get_relative_path(url) :> [url |-> url, attrs |-> attrs]) @@ files

\* How a request may end: plainly, or in one of `others` while the run has
\* failures left.
Outcomes(others) == {"ok"} \cup (IF failures < MaxFailures THEN others ELSE {})
Failed(outcome) == IF outcome = "ok" THEN failures ELSE failures + 1

(***************************************************************************)
(* Initial state: WebDownloader.__init__ with no cache file on disk.       *)
(***************************************************************************)
Init ==
  /\ cfg \in Configs
  /\ stop_event = FALSE
  /\ pause_event = TRUE
  /\ visited_urls = {} /\ counted_urls = {}
  /\ total_resources = 0 /\ downloaded_resources = 0
  /\ download_cache = {} /\ failed_downloads = {}
  /\ pages_crawled = 0 /\ images_downloaded = 0
  /\ resource_queue = {}
  /\ pc = "start" /\ seed = 1 /\ stack = <<>> /\ unsubmitted = {}
  /\ pending = <<>>
  /\ pool = [w \in 1..cfg.concurrency |-> IdleWorker]
  /\ finished = <<>>
  /\ failures = 0
  /\ loads = [p \in Passes |-> [u \in PageURLs \cup Stylesheets |-> 0]]
  /\ writes = [u \in URLs |-> 0]
  /\ lastProgress = NoProgress
  /\ emitted = [t \in Tasks |-> <<>>]
  /\ message = ""
  /\ files = <<>>
  /\ stop_pressed = FALSE /\ ripper = IdleRipper

(***************************************************************************)
(* The front end: stop_download, pause_download, resume_download act while *)
(* the downloader thread is running.                                       *)
(***************************************************************************)
Running == pc # "done"

Stop ==
  /\ Running
  /\ stop_event' = TRUE
  /\ UNCHANGED <<cfg, otherVars, pause_event, engineVars, mainVars, poolVars, ghostVars>>

Pause ==
  /\ Running
  /\ pause_event' = FALSE
  /\ UNCHANGED <<cfg, otherVars, stop_event, engineVars, mainVars, poolVars, ghostVars>>

\* Mutant: resume leaves the event as it is.
ResumeLeavesPaused ==
  /\ Running
  /\ UNCHANGED <<cfg, otherVars, stop_event, pause_event, engineVars, mainVars, poolVars, ghostVars>>

Resume ==
  /\ Running
  /\ pause_event' = TRUE
  /\ UNCHANGED <<cfg, otherVars, stop_event, engineVars, mainVars, poolVars, ghostVars>>

(***************************************************************************)
(* The two recursive page functions: _count_total_resources ("count") and  *)
(* _download_page_with_playwright ("crawl").  A frame is one activation.   *)
(***************************************************************************)
Top            == stack[Len(stack)]
Pop            == SubSeq(stack, 1, Len(stack) - 1)
ReplaceTop(f)  == [stack EXCEPT ![Len(stack)] = f]
NewFrame(url, depth) ==
  [url |-> url, depth |-> depth, phase |-> "loading", css |-> <<>>,
   resources |-> {}, links |-> <<>>]

\* Mutant: the depth test is off by one.
DepthExceededOffByOne(current_depth) == current_depth > cfg.max_depth + 1

\* current_depth > self.max_depth
DepthExceeded(current_depth) == current_depth > cfg.max_depth

\* Mutant: both passes test the visited set of the crawl.
AlreadySeenWrongSet(pass, url) == url \in visited_urls

\* url in self.counted_urls / url in self.visited_urls
AlreadySeen(pass, url) ==
  IF pass = "count" THEN url \in counted_urls ELSE url \in visited_urls

\* The early returns of a page function, down to the stop check that
\* precedes the page load.
Admits(pass, url, depth, robots) ==
  /\ ~should_stop_crawl
  /\ ~DepthExceeded(depth)
  /\ URLInfo(url).scheme \in HttpSchemes
  /\ ~AlreadySeen(pass, url)
  /\ _can_fetch(url, robots)

RobotsOutcomes(url) ==
  IF RobotsRead(url) THEN Outcomes({"error", "denied"}) ELSE {"ok"}

\* A call of a page function on url, over the frames stk of its callers: it
\* returns at once, or marks the URL and starts the page load.
PageEnter(pass, url, depth, stk, robots) ==
  /\ failures' = Failed(robots)
  /\ IF Admits(pass, url, depth, robots)
       THEN /\ counted_urls' = IF pass = "count" THEN counted_urls \cup {url} ELSE counted_urls
            /\ visited_urls' = IF pass = "crawl" THEN visited_urls \cup {url} ELSE visited_urls
            /\ pages_crawled' = IF pass = "crawl" THEN pages_crawled + 1 ELSE pages_crawled
            /\ stack' = Append(stk, NewFrame(url, depth))
            /\ loads' = [loads EXCEPT ![pass][url] = @ + 1]
       ELSE /\ stack' = stk
            /\ UNCHANGED <<counted_urls, visited_urls, pages_crawled, loads>>

\* The loop over base_urls of download_websites, for either pass.
SeedStep(pass, next) ==
  /\ pc = pass /\ stack = <<>>
  /\ IF seed > Len(cfg.base_urls) \/ should_stop_crawl
       THEN /\ pc' = next /\ seed' = 1
            /\ unsubmitted' = IF pass = "crawl" THEN resource_queue ELSE unsubmitted
            /\ UNCHANGED <<stack, counted_urls, visited_urls, pages_crawled,
                           loads, failures>>
       ELSE /\ \E robots \in RobotsOutcomes(cfg.base_urls[seed]) :
                 PageEnter(pass, cfg.base_urls[seed], 0, stack, robots)
            /\ seed' = seed + 1
            /\ UNCHANGED <<pc, unsubmitted>>
  /\ UNCHANGED <<cfg, otherVars, stop_event, pause_event, total_resources, downloaded_resources,
                 download_cache, failed_downloads, images_downloaded, resource_queue,
                 finished, poolVars, writes, lastProgress, emitted, message, files>>

\* The loop over linked_pages of a page function, and its return.
LinkStep(pass) ==
  /\ pc = pass /\ stack # <<>> /\ Top.phase = "links"
  /\ IF Top.links = <<>> \/ should_stop_crawl
       THEN /\ stack' = Pop
            /\ UNCHANGED <<counted_urls, visited_urls, pages_crawled, loads,
                           failures>>
       ELSE \E robots \in RobotsOutcomes(Head(Top.links)) :
              PageEnter(pass, Head(Top.links), Top.depth + 1,
                        ReplaceTop([Top EXCEPT !.links = Tail(@)]), robots)
  /\ UNCHANGED <<cfg, otherVars, stop_event, pause_event, total_resources, downloaded_resources,
                 download_cache, failed_downloads, images_downloaded, resource_queue,
                 pc, seed, unsubmitted, finished, poolVars, writes, lastProgress,
                 emitted, message, files>>

\* What the crawl appends to resource_queue for the resources of a page.
Queued(resources, page) ==
  IF should_stop_downloading_resources THEN {}
  ELSE {<<r, page>> : r \in resources \ download_cache}

\* The rest of a page function once _parse_resources has returned resources.
PageParsed(pass, resources) ==
  /\ total_resources' =
       IF pass = "count" THEN total_resources + Cardinality(resources) ELSE total_resources
  /\ resource_queue' =
       IF pass = "crawl" THEN resource_queue \cup Queued(resources, Top.url) ELSE resource_queue
  /\ stack' = ReplaceTop([Top EXCEPT !.phase = "links", !.css = <<>>,
                                     !.resources = resources,
                                     !.links = _find_linked_pages(Top.url)])

\* The page load ends: an exception abandons the page; otherwise the page is
\* saved (crawl) and _parse_resources starts, which fetches each stylesheet.
PageLoaded(pass) ==
  /\ pc = pass /\ stack # <<>> /\ Top.phase = "loading"
  /\ \E outcome \in Outcomes({"error"}) :
       /\ failures' = Failed(outcome)
       /\ writes' = IF pass = "crawl" /\ outcome = "ok"
                      THEN [writes EXCEPT ![Top.url] = @ + 1] ELSE writes
       /\ files' = IF pass = "crawl" /\ outcome = "ok"
                     THEN FileWritten(Top.url, PageAttrs(Top.url)) ELSE files
       /\ IF outcome = "error"
            THEN /\ stack' = Pop
                 /\ UNCHANGED <<total_resources, resource_queue>>
            ELSE IF stop_event
              THEN PageParsed(pass, {})
            ELSE IF StylesheetsToParse(Top.url) = <<>>
              THEN PageParsed(pass, OtherResources(Top.url))
            ELSE /\ stack' = ReplaceTop([Top EXCEPT !.phase = "css",
                                                    !.css = StylesheetsToParse(Top.url)])
                 /\ UNCHANGED <<total_resources, resource_queue>>
  /\ UNCHANGED <<cfg, otherVars, stop_event, pause_event, visited_urls, counted_urls,
                 downloaded_resources, download_cache, failed_downloads, pages_crawled,
                 images_downloaded, pc, seed, unsubmitted, finished, poolVars, loads,
                 lastProgress, emitted, message>>

\* The GET of _parse_css_resources ends; the next stylesheet is fetched, or
\* _parse_resources goes on to the other categories and returns.
CssFetched(pass) ==
  /\ pc = pass /\ stack # <<>> /\ Top.phase = "css"
  /\ \E outcome \in Outcomes({"error"}) :
       LET sheet == Head(Top.css)
           found == Top.resources \cup {sheet}
                      \cup (IF outcome = "ok" THEN _parse_css_resources(sheet) ELSE {})
           rest  == Tail(Top.css)
       IN  /\ failures' = Failed(outcome)
           /\ loads' = [loads EXCEPT ![pass][sheet] = @ + 1]
           /\ IF rest = <<>>
                THEN PageParsed(pass, found \cup OtherResources(Top.url))
                ELSE /\ stack' = ReplaceTop([Top EXCEPT !.css = rest, !.resources = found])
                     /\ UNCHANGED <<total_resources, resource_queue>>
  /\ UNCHANGED <<cfg, otherVars, stop_event, pause_event, visited_urls, counted_urls,
                 downloaded_resources, download_cache, failed_downloads, pages_crawled,
                 images_downloaded, pc, seed, unsubmitted, finished, poolVars,
                 writes, lastProgress, emitted, message, files>>

CountSeed   == SeedStep("count", "crawl")
CountLink   == LinkStep("count")
CountLoaded == PageLoaded("count")
CountCss    == CssFetched("count")
CrawlSeed   == SeedStep("crawl", "submit")
CrawlLink   == LinkStep("crawl")
CrawlLoaded == PageLoaded("crawl")
CrawlCss    == CssFetched("crawl")

(***************************************************************************)
(* download_websites around the two passes, and DownloaderThread.run.      *)
(***************************************************************************)
\* os.makedirs(download_path): it succeeds, or raises and the run ends.
MakeDirs ==
  /\ pc = "start"
  /\ \E outcome \in {"ok", "error"} :
       IF outcome = "ok"
         THEN pc' = "count" /\ UNCHANGED <<finished, message>>
         ELSE pc' = "done" /\ finished' = <<FALSE>> /\ message' = "error"
  /\ UNCHANGED <<cfg, otherVars, stop_event, pause_event, engineVars, seed, stack, unsubmitted,
                 poolVars, failures, loads, writes, lastProgress, emitted, files>>

\* One turn of the loop over unique_resources: break, or submit one task.
Submit ==
  /\ pc = "submit"
  /\ IF unsubmitted = {} \/ should_stop_downloading_resources \/ should_stop_crawl
       THEN pc' = "shutdown" /\ unsubmitted' = {} /\ UNCHANGED pending
       ELSE \E task \in unsubmitted :
              /\ pending' = Append(pending, task)
              /\ unsubmitted' = unsubmitted \ {task}
              /\ UNCHANGED pc
  /\ UNCHANGED <<cfg, otherVars, stop_event, pause_event, engineVars, seed, stack, finished, pool,
                 ghostVars>>

\* Mutant: shutdown returns as soon as the work queue is empty.
PoolDrainedQueueOnly == pending = <<>>

\* executor.shutdown(wait=True) returns when every submitted task has ended.
PoolDrained == pending = <<>> /\ \A w \in Workers : pool[w].pc = "idle"

Shutdown ==
  /\ pc = "shutdown"
  /\ PoolDrained
  /\ pc' = "rewrite"
  /\ UNCHANGED <<cfg, otherVars, stop_event, pause_event, engineVars, seed, stack, unsubmitted,
                 finished, poolVars, ghostVars>>

\* _final_rewrite_all_html: every HTML file of the output directory is read,
\* its attributes are rewritten and it is written back.
FinalRewrite ==
  /\ pc = "rewrite"
  /\ pc' = "final"
  /\ files' = [p \in DOMAIN files |->
                 IF IsHtml(p)
                   THEN [files[p] EXCEPT !.attrs = {Rewritten(a, p) : a \in @}]
                   ELSE files[p]]
  /\ UNCHANGED <<cfg, otherVars, stop_event, pause_event, engineVars, seed, stack, unsubmitted,
                 finished, poolVars, failures, loads, writes, lastProgress, emitted,
                 message>>

\* Mutant: the last publication is computed from the counters.
PublicationComputed(value) ==
  [value |-> ProgressValue(downloaded_resources, total_resources),
   downloaded |-> downloaded_resources, total |-> total_resources]

\* The value progress_callback receives.
Publication(value) ==
  [value |-> value, downloaded |-> downloaded_resources, total |-> total_resources]

\* Mutant: a run with failed resources reports failure.
RunResultFailedTasks ==
  IF stop_event \/ failed_downloads # {} THEN "stopped" ELSE "completed"

\* What download_websites returns after the final rewrite.
RunResult == IF stop_event THEN "stopped" ELSE "completed"

\* The end of download_websites and the emit of finished_download.
Finish ==
  /\ pc = "final"
  /\ pc' = "done"
  /\ message' = RunResult
  /\ finished' = <<RunResult = "completed">>
  /\ lastProgress' = IF RunResult = "completed" THEN Publication(100) ELSE lastProgress
  /\ UNCHANGED <<cfg, otherVars, stop_event, pause_event, engineVars, seed, stack, unsubmitted,
                 poolVars, failures, loads, writes, emitted, files>>

(***************************************************************************)
(* _download_resource, run by a worker thread of the executor.             *)
(***************************************************************************)
Become(w, state) == pool' = [pool EXCEPT ![w] = state]
At(w, where)     == [pool[w] EXCEPT !.pc = where]
TaskOf(w)        == <<pool[w].url, pool[w].page>>

\* resource_downloaded_callback.emit(url, status, path)
Emit(task, status) == emitted' = [emitted EXCEPT ![task] = Append(@, status)]

\* any(m in mime_type for m in self.ignore_mime_types)
MimeIgnored(url) == ContentType(url) \in cfg.ignore_mime_types

\* max_file_size > 0 and Content-Length above it
TooLarge(url) == cfg.max_file_size > 0 /\ ContentLength(url) > cfg.max_file_size

\* The checks at the head of _download_resource, passed by a task that goes
\* on to the pause gate.
TaskAdmitted(url, robots) ==
  /\ ~stop_event
  /\ ~should_stop_downloading_resources
  /\ url \notin download_cache
  /\ url \notin failed_downloads
  /\ _can_fetch(url, robots)

\* The early return that reports a URL of the downloaded cache.
AlreadyDownloaded(url) ==
  /\ ~stop_event
  /\ ~should_stop_downloading_resources
  /\ url \in download_cache

\* How the robots read of a task can end; the task gets to _can_fetch only
\* past the limit and cache checks.
TaskRobots(url) ==
  IF \/ should_stop_downloading_resources
     \/ url \in download_cache
     \/ url \in failed_downloads
    THEN {"ok"}
    ELSE RobotsOutcomes(url)

\* A worker takes the next task of the queue and runs its early checks.
TaskStart(w) ==
  /\ pool[w].pc = "idle" /\ pending # <<>>
  /\ pending' = Tail(pending)
  /\ \E robots \in TaskRobots(Head(pending)[1]) :
       /\ failures' = Failed(robots)
       /\ IF TaskAdmitted(Head(pending)[1], robots)
            THEN /\ Become(w, [pc |-> "gate", url |-> Head(pending)[1],
                               page |-> Head(pending)[2], attempt |-> 0,
                               answer |-> "", seen |-> 0])
                 /\ UNCHANGED emitted
            ELSE /\ UNCHANGED pool
                 /\ IF AlreadyDownloaded(Head(pending)[1])
                      THEN Emit(Head(pending), "already")
                      ELSE UNCHANGED emitted
  /\ UNCHANGED <<cfg, otherVars, stop_event, pause_event, engineVars, mainVars, loads,
                 writes, lastProgress, message, files>>

\* The except branch of _download_resource: the failure is reported and the
\* URL is marked failed.
TaskFailed(w) ==
  /\ Emit(TaskOf(w), "failed")
  /\ failed_downloads' = failed_downloads \cup {pool[w].url}
  /\ Become(w, IdleWorker)

\* Mutant: the loop condition of the older engine, attempt <= retries.
NextAttemptOneMore(w, attempt) ==
  IF attempt <= cfg.retries
    THEN /\ Become(w, [pool[w] EXCEPT !.pc = "head", !.attempt = attempt,
                                      !.answer = ""])
         /\ UNCHANGED <<failed_downloads, emitted>>
    ELSE TaskFailed(w)

\* The head of the retry loop: another attempt starts with a HEAD request, or
\* the attempts are used up.
NextAttempt(w, attempt) ==
  IF attempt < cfg.retries
    THEN /\ Become(w, [pool[w] EXCEPT !.pc = "head", !.attempt = attempt,
                                      !.answer = ""])
         /\ UNCHANGED <<failed_downloads, emitted>>
    ELSE TaskFailed(w)

\* Mutant: a skipped resource is marked failed.
SkippedAsFailed(w, status) ==
  /\ Become(w, IdleWorker)
  /\ IF status = "" THEN UNCHANGED emitted ELSE Emit(TaskOf(w), status)
  /\ failed_downloads' = failed_downloads \cup {pool[w].url}

\* A return from inside the retry loop, with the status it emits ("" when it
\* emits none).
Skipped(w, status) ==
  /\ Become(w, IdleWorker)
  /\ IF status = "" THEN UNCHANGED emitted ELSE Emit(TaskOf(w), status)
  /\ UNCHANGED failed_downloads

\* The except clause of the retry loop: attempt += 1, then the sleep.
AttemptFailed(w, answer) ==
  /\ Become(w, [pool[w] EXCEPT !.pc = "backoff", !.attempt = @ + 1,
                               !.answer = answer])
  /\ UNCHANGED <<failed_downloads, emitted>>

\* pause_event.wait(), the stop check after it, and the first attempt.
Gate(w) ==
  /\ pool[w].pc = "gate"
  /\ pause_event
  /\ IF stop_event
       THEN Become(w, IdleWorker) /\ UNCHANGED <<failed_downloads, emitted>>
       ELSE NextAttempt(w, 0)
  /\ UNCHANGED <<cfg, otherVars, stop_event, pause_event, visited_urls, counted_urls,
                 total_resources, downloaded_resources, download_cache, pages_crawled,
                 images_downloaded, resource_queue, mainVars, pending, failures, loads,
                 writes, lastProgress, message, files>>

\* The HEAD request ends: an exception counts an attempt, 404 ends the loop,
\* an ignored MIME type ends the task, anything else goes on to the GET.
HeadDone(w) ==
  /\ pool[w].pc = "head"
  /\ \E outcome \in Outcomes({"error", "404"}) :
       /\ failures' = Failed(outcome)
       /\ IF outcome = "error"
            THEN AttemptFailed(w, outcome)
          ELSE IF outcome = "404"
            THEN TaskFailed(w)
          ELSE IF MimeIgnored(pool[w].url)
            THEN Skipped(w, "")
          ELSE /\ Become(w, At(w, "get"))
               /\ UNCHANGED <<failed_downloads, emitted>>
  /\ UNCHANGED <<cfg, otherVars, stop_event, pause_event, visited_urls, counted_urls,
                 total_resources, downloaded_resources, download_cache, pages_crawled,
                 images_downloaded, resource_queue, mainVars, pending, loads, writes,
                 lastProgress, message, files>>

\* time.sleep(2 ** attempt) is over: back to the head of the retry loop.
Backoff(w) ==
  /\ pool[w].pc = "backoff"
  /\ NextAttempt(w, pool[w].attempt)
  /\ UNCHANGED <<cfg, otherVars, stop_event, pause_event, visited_urls, counted_urls,
                 total_resources, downloaded_resources, download_cache, pages_crawled,
                 images_downloaded, resource_queue, mainVars, pending, failures, loads,
                 writes, lastProgress, message, files>>

\* The GET request ends: an exception, or an error status ("4xx") raised by
\* raise_for_status, counts an attempt; a body above the size limit ends the
\* task; anything else is a success.
GetDone(w) ==
  /\ pool[w].pc = "get"
  /\ \E outcome \in Outcomes({"error", "4xx"}) :
       /\ failures' = Failed(outcome)
       /\ IF outcome # "ok"
            THEN AttemptFailed(w, outcome)
          ELSE IF TooLarge(pool[w].url)
            THEN Skipped(w, "too_large")
          ELSE /\ Become(w, At(w, "save"))
               /\ UNCHANGED <<failed_downloads, emitted>>
  /\ UNCHANGED <<cfg, otherVars, stop_event, pause_event, visited_urls, counted_urls,
                 total_resources, downloaded_resources, download_cache, pages_crawled,
                 images_downloaded, resource_queue, mainVars, pending, loads, writes,
                 lastProgress, message, files>>

\* 'image/' in response.headers.get('Content-Type', '')
IsImage(url) == ContentType(url) = "image/png"

\* The body is written to its file.  An OSError of makedirs / open /
\* copyfileobj leaves _download_resource through no except clause: the task
\* ends there.  For an image, self.images_downloaded += 1 follows, which no
\* lock protects: the worker reads the counter here and stores the sum in
\* its next step.  For another resource download_cache is updated, the
\* cache file is saved and the download is reported.
Save(w) ==
  /\ pool[w].pc = "save"
  /\ \E outcome \in Outcomes({"oserror"}) :
       /\ failures' = Failed(outcome)
       /\ IF outcome = "oserror"
            THEN /\ Become(w, IdleWorker)
                 /\ UNCHANGED <<writes, files, download_cache, emitted>>
            ELSE /\ writes' = [writes EXCEPT ![pool[w].url] = @ + 1]
                 /\ files' = FileWritten(pool[w].url, {})
                 /\ IF IsImage(pool[w].url)
                      THEN /\ Become(w, [At(w, "record") EXCEPT !.seen = images_downloaded])
                           /\ UNCHANGED <<download_cache, emitted>>
                      ELSE /\ download_cache' = download_cache \cup {pool[w].url}
                           /\ Emit(TaskOf(w), "downloaded")
                           /\ Become(w, At(w, "count"))
  /\ UNCHANGED images_downloaded
  /\ UNCHANGED <<cfg, otherVars, stop_event, pause_event, visited_urls, counted_urls,
                 total_resources, downloaded_resources, failed_downloads, pages_crawled,
                 resource_queue, mainVars, pending, loads, lastProgress, message>>

\* The store of self.images_downloaded += 1 for an image; download_cache is
\* updated, the cache file is saved and the download is reported.
Record(w) ==
  /\ pool[w].pc = "record"
  /\ images_downloaded' = pool[w].seen + 1
  /\ download_cache' = download_cache \cup {pool[w].url}
  /\ Emit(TaskOf(w), "downloaded")
  /\ Become(w, [At(w, "count") EXCEPT !.seen = 0])
  /\ UNCHANGED <<cfg, otherVars, stop_event, pause_event, visited_urls, counted_urls,
                 total_resources, downloaded_resources, failed_downloads, pages_crawled,
                 resource_queue, mainVars, pending, failures, loads, writes,
                 lastProgress, message, files>>

\* Mutant: the increment and the publication are not one critical section;
\* the value published was computed before other workers incremented.
CountDownloadedUnlocked(w) ==
  /\ pool[w].pc = "count"
  /\ downloaded_resources' = downloaded_resources + 1
  /\ \E d \in 1..(downloaded_resources + 1) :
       lastProgress' = [value |-> ProgressValue(d, total_resources),
                        downloaded |-> d, total |-> total_resources]
  /\ Become(w, IdleWorker)
  /\ UNCHANGED <<cfg, otherVars, stop_event, pause_event, visited_urls, counted_urls,
                 total_resources, download_cache, failed_downloads, pages_crawled,
                 images_downloaded, resource_queue, mainVars, pending, failures, loads,
                 writes, emitted, message, files>>

\* with self.lock: downloaded_resources += 1; _update_progress()
CountDownloaded(w) ==
  /\ pool[w].pc = "count"
  /\ downloaded_resources' = downloaded_resources + 1
  /\ lastProgress' = [value |-> ProgressValue(downloaded_resources + 1, total_resources),
                      downloaded |-> downloaded_resources + 1,
                      total |-> total_resources]
  /\ Become(w, IdleWorker)
  /\ UNCHANGED <<cfg, otherVars, stop_event, pause_event, visited_urls, counted_urls,
                 total_resources, download_cache, failed_downloads, pages_crawled,
                 images_downloaded, resource_queue, mainVars, pending, failures, loads,
                 writes, emitted, message, files>>

(***************************************************************************)
(* The run.                                                                *)
(***************************************************************************)
MainNext ==
  \/ MakeDirs
  \/ CountSeed \/ CountLink \/ CountLoaded \/ CountCss
  \/ CrawlSeed \/ CrawlLink \/ CrawlLoaded \/ CrawlCss
  \/ Submit \/ Shutdown \/ FinalRewrite \/ Finish

WorkerNext(w) ==
  \/ TaskStart(w) \/ Gate(w) \/ HeadDone(w) \/ Backoff(w) \/ GetDone(w)
  \/ Save(w) \/ Record(w) \/ CountDownloaded(w)

Next ==
  \/ MakeDirs
  \/ CountSeed \/ CountLink \/ CountLoaded \/ CountCss
  \/ CrawlSeed \/ CrawlLink \/ CrawlLoaded \/ CrawlCss
  \/ Submit \/ Shutdown \/ FinalRewrite \/ Finish
  \/ \E w \in Workers : TaskStart(w)
  \/ \E w \in Workers : Gate(w)
  \/ \E w \in Workers : HeadDone(w)
  \/ \E w \in Workers : Backoff(w)
  \/ \E w \in Workers : GetDone(w)
  \/ \E w \in Workers : Save(w)
  \/ \E w \in Workers : Record(w)
  \/ \E w \in Workers : CountDownloaded(w)
  \/ Stop \/ Pause \/ Resume

Spec == Init /\ [][Next]_vars

\* The threads of the engine are scheduled fairly; the front end owes nothing.
FairSpec ==
  /\ Spec
  /\ WF_vars(MainNext)
  /\ \A w \in 1..2 : WF_vars(w \in Workers /\ WorkerNext(w))

(***************************************************************************)
(* Requests as steps and as states.  A fetch attempt starts in the step    *)
(* that pushes a loading frame (page load), that puts a stylesheet at the  *)
(* head of a frame's css list (GET of _parse_css_resources) or that moves  *)
(* a worker to "head" (the HEAD request that opens each turn of the retry  *)
(* loop); a request is in flight in the states that follow.                *)
(***************************************************************************)
PageLoadStarts == Len(stack') > Len(stack)
CssFetchStarts ==
  /\ stack' # stack /\ stack' # <<>>
  /\ stack'[Len(stack')].phase = "css"
AttemptStarts(w) == pool'[w].pc = "head" /\ pool[w].pc # "head"
FetchStarts ==
  \/ PageLoadStarts
  \/ CssFetchStarts
  \/ \E w \in Workers : AttemptStarts(w)

\* The URLs with a request for content in flight.
InFlight ==
  {stack[i].url : i \in {j \in 1..Len(stack) : stack[j].phase = "loading"}}
    \cup {Head(stack[i].css) : i \in {j \in 1..Len(stack) : stack[j].phase = "css"}}
    \cup {pool[w].url : w \in {v \in Workers : pool[v].pc \in {"head", "get"}}}

\* The Scope Filter's rejections that the URL and the configuration decide
\* (a robots rejection depends on what the read of robots.txt returns).
ScopeRejects(url) ==
  \/ URLInfo(url).scheme \notin HttpSchemes
  \/ URLInfo(url).netloc = ""
  \/ Excluded(url)
  \/ HostRejected(url)

Seeds == {cfg.base_urls[i] : i \in 1..Len(cfg.base_urls)}

(***************************************************************************)
(* The claims.                                                             *)
(***************************************************************************)

\* C1: once the stop signal is set, no fetch attempt starts for the rest of
\* the run: no page load, no stylesheet fetch, no first attempt and no retry
\* attempt of a resource.
C1_NoFetchAfterStop == [][stop_event => ~FetchStarts]_vars

\* C2: when stop is invoked while the run is in progress, the run ends and
\* the finished signal carries success = false.
C2_StopEndsRun == (stop_event /\ Running) ~> (finished = <<FALSE>>)

\* C3: a resource URL is written at most once in a run, whatever the
\* interleaving of the workers.
C3_ResourceWrittenOnce == \A u \in ResourceURLs : writes[u] <= 1

C5_DownloadedWithinTotal == lastProgress.downloaded <= lastProgress.total

\* C6 as claimed: in every run the last progress value before the finished
\* signal is 100.
C6_FinalProgress100 == finished # <<>> => lastProgress.value = 100

\* C6 as amended: in every run that finishes with success = true the last
\* progress value before the finished signal is 100.
C6_SuccessProgress100 == finished = <<TRUE>> => lastProgress.value = 100

\* C6 witness: a successful run in which fewer resources were downloaded
\* than counted.
C6_Witness ==
  /\ finished = <<TRUE>>
  /\ total_resources > 0 /\ downloaded_resources < total_resources

\* C7: no page is loaded at a depth above max_depth, in either pass, and
\* with max_depth = 0 only seed URLs are loaded.
C7_DepthBounded ==
  /\ \A i \in 1..Len(stack) : stack[i].depth <= cfg.max_depth
  /\ cfg.max_depth = 0 =>
       \A p \in Passes : \A u \in PageURLs : loads[p][u] > 0 => u \in Seeds

\* C7 witness: with max_depth = 0, in a run never stopped and with no failed
\* request, the crawl is over: it has loaded the seed, whose first anchor is
\* PageA1, and has not loaded PageA1.
C7_Witness ==
  /\ cfg.max_depth = 0 /\ cfg.base_urls = <<SeedA>>
  /\ pc = "submit" /\ ~stop_event /\ failures = 0
  /\ loads["crawl"][SeedA] = 1 /\ loads["crawl"][PageA1] = 0

\* C8: while the engine is paused no fetch attempt starts: no page load, no
\* stylesheet fetch, no first attempt and no retry attempt of a resource.
C8_NoFetchWhilePaused == [][~pause_event => ~FetchStarts]_vars

\* C9: no request for content goes to a URL that the Scope Filter rejects.
C9_NoRequestOutOfScope == \A u \in InFlight : ~ScopeRejects(u)

\* C10: every seed URL with an http or https scheme that matches no
\* exclusion is loaded by the crawl (in a run that was not stopped, with no
\* page limit and no robots check).
C10_EverySeedLoaded ==
  (finished = <<TRUE>> /\ cfg.max_pages = 0 /\ ~cfg.robots_txt) =>
    \A u \in Seeds :
      (URLInfo(u).scheme \in HttpSchemes /\ ~Excluded(u)) => loads["crawl"][u] >= 1

\* The states of a worker whose task has issued a request.
FetchStage == {"head", "get", "backoff", "save", "record", "count"}

\* The statuses of a response that the claims call permanent errors.
PermanentErrors == {"404", "4xx"}

\* A step in which worker w leaves the retry loop through a return: the
\* request was answered plainly and the worker is idle again.
SkipStep(w) ==
  /\ pool[w].pc \in {"head", "get"}
  /\ pool'[w].pc = "idle"
  /\ failures' = failures

C12_PermanentErrorNotRetried ==
  [][\A w \in Workers : pool[w].answer \in PermanentErrors => ~AttemptStarts(w)]_vars

\* C13: success = false is reported only for a stopped run or a setup error,
\* and the step in which a request fails aborts nothing: the main thread stays
\* where it is, no seed is skipped, nothing leaves the resources still to be
\* submitted, and only the task being started leaves the executor's queue.
C13_FailureNeverAborts ==
  /\ [](finished = <<FALSE>> => stop_event \/ message = "error")
  /\ [][failures' > failures =>
          /\ pc' = pc /\ finished' = finished
          /\ seed' >= seed
          /\ unsubmitted' = unsubmitted
          /\ pending' = pending \/ (pending # <<>> /\ pending' = Tail(pending))]_vars

\* C13 witness: a run that was never stopped, in which resources failed, has
\* finished with success = true.
C13_Witness ==
  /\ finished = <<TRUE>> /\ ~stop_event
  /\ failed_downloads # {} /\ failures = MaxFailures

\* C14: a task that has reached the fetch stage has emitted exactly one
\* outcome when it ends.
C14_ExactlyOneOutcome ==
  [][\A w \in Workers :
       (pool[w].pc \in FetchStage /\ pool'[w].pc = "idle")
         => Len(emitted'[TaskOf(w)]) = 1]_vars

\* C15: the step that skips a resource as too large or as an ignored MIME
\* type writes no file, leaves downloaded_resources and images_downloaded
\* alone and adds the URL to neither the downloaded cache nor the failed set.
C15_SkipChangesNothing ==
  [][(\E w \in Workers : SkipStep(w)) =>
       UNCHANGED <<writes, downloaded_resources, images_downloaded,
                   download_cache, failed_downloads>>]_vars

\* C15 witness: with a size limit of 1 and text/css ignored, the stylesheet was
\* skipped for its MIME type and the image (length 2) as too large; the pool
\* is done, no request failed and the engine's counters and sets are as at
\* the start.
C15_Witness ==
  /\ cfg.max_file_size = 1 /\ cfg.ignore_mime_types = {"text/css"}
  /\ pc = "rewrite" /\ ~stop_event /\ failures = 0
  /\ emitted[<<Css, SeedA>>] = <<>> /\ emitted[<<Img, SeedA>>] = <<"too_large">>
  /\ download_cache = {} /\ failed_downloads = {}
  /\ downloaded_resources = 0 /\ images_downloaded = 0
  /\ writes[Css] = 0 /\ writes[Img] = 0

\* The sum of f over S.
RECURSIVE Total(_, _)
Total(f, S) ==
  IF S = {} THEN 0
  ELSE LET x == CHOOSE y \in S : TRUE IN f[x] + Total(f, S \ {x})

\* The page loads of the run so far, both passes counted.
PageLoads == Total(loads["count"], PageURLs) + Total(loads["crawl"], PageURLs)

\* C16: with max_resources > 0 the resources downloaded never exceed
\* max_resources, and with max_images > 0 the images downloaded never exceed
\* max_images, whatever the interleaving of the workers.
C16_LimitsNeverExceeded ==
  /\ cfg.max_resources > 0 => downloaded_resources <= cfg.max_resources
  /\ cfg.max_images > 0 => images_downloaded <= cfg.max_images

\* C17: with max_pages > 0 no more than max_pages pages are loaded in a run,
\* the loads of the counting pass and of the crawl taken together.
C17_PageLoadsWithinLimit == cfg.max_pages > 0 => PageLoads <= cfg.max_pages

\* The URL has its file in the mirror: the path the engine saves it under
\* holds what was fetched from it.
Mirrored(target) ==
  /\ URLInfo(target).scheme \in HttpSchemes
  /\ \E p \in DOMAIN files :
       /\ Normalise(p) = Normalise(_get_relative_path(target))
       /\ files[p].url = target

\* The attribute holds a path relative to the directory of the HTML file
\* that leads to the mirrored file of its target.
PointsTo(html_file_path, attr) ==
  /\ attr.form \in {"relative", "local"}
  /\ Normalise(Dir(html_file_path) \o attr.ref)
       = Normalise(_get_relative_path(attr.target))

\* The writes of the run that went to a local path.
WritesTo(path) ==
  Total(writes, {u \in URLs : /\ URLInfo(u).scheme \in HttpSchemes
                              /\ _get_relative_path(u) = path})

\* C18: after the final rewrite, in every saved HTML file each href / src
\* attribute whose resolved target has a file in the mirror holds a relative
\* path, from the directory of the HTML file, to that file.
C18_MirroredLinksRelative ==
  pc \in {"final", "done"} =>
    \A f \in DOMAIN files :
      IsHtml(f) => \A a \in files[f].attrs : Mirrored(a.target) => PointsTo(f, a)

\* C19: every local path written to, for a page or a resource, lies under the
\* output directory.
C19_WritesUnderOutput == \A p \in DOMAIN files : UnderOutput(p)

\* C20: no local path is written more than once in a run, by whichever tasks.
C20_OneWriterPerPath ==
  \A u \in URLs : writes[u] > 0 => WritesTo(_get_relative_path(u)) <= 1

\* The page the main thread is about to call a page function on, when it
\* stands at the head of a loop over seeds or over linked pages.
AtPageCall == pc \in Passes /\ (stack = <<>> \/ Top.phase = "links")
NextPage ==
  IF stack = <<>>
    THEN [url |-> cfg.base_urls[seed], depth |-> 0]
    ELSE [url |-> Head(Top.links), depth |-> Top.depth + 1]

\* What admits a page when robots checking is disabled.
AdmitsWithoutRobots(pass, url, depth) ==
  /\ ~should_stop_crawl
  /\ ~DepthExceeded(depth)
  /\ URLInfo(url).scheme \in HttpSchemes
  /\ ~AlreadySeen(pass, url)
  /\ ~stop_event /\ ~Excluded(url) /\ ~HostRejected(url)

\* C22: when the robots data of a host cannot be retrieved, the URL is
\* treated as with robots checking disabled: a page that the other checks
\* admit is loaded, and a resource task goes on to its requests.
C22_RobotsFailureAllows ==
  [][/\ (AtPageCall /\ failures' > failures)
          => (AdmitsWithoutRobots(pc, NextPage.url, NextPage.depth)
                => PageLoadStarts)
     /\ (Len(pending') < Len(pending) /\ failures' > failures)
          => \E w \in Workers : pool[w].pc = "idle" /\ pool'[w].pc = "gate"]_vars

\* The frames whose page _parse_resources has returned the resources of.
ParsedFrames == {i \in 1..Len(stack) : stack[i].phase = "links"}

\* C23: with remove_query_strings off, the extractor keeps an image
\* reference with its fragment stripped and its query string in place, so
\* that references differing only in the query stay distinct.
C23_QueryKeptUnlessConfigured ==
  (~stop_event /\ ~cfg.remove_query_strings /\ "images" \in cfg.resource_types) =>
    \A i \in ParsedFrames :
      \A r \in PageImageRefs(stack[i].url) :
        is_valid_resource_url(clean_url(r)) => StripFragment(r) \in stack[i].resources

\* C24: the extractor keeps an image reference exactly when its normalized
\* URL has an http or https scheme and a host.
C24_KeptBySchemeAndHost ==
  (~stop_event /\ "images" \in cfg.resource_types) =>
    \A i \in ParsedFrames :
      \A r \in PageImageRefs(stack[i].url) :
        clean_url(r) \in stack[i].resources
          <=> /\ URLInfo(clean_url(r)).scheme \in HttpSchemes
              /\ URLInfo(clean_url(r)).netloc # ""

\* How often _parse_css_resources was called for a stylesheet and its GET
\* has returned; in a run without a failed request each call has fetched the
\* body and extracted its references.
Extractions(sheet) == loads["count"][sheet] + loads["crawl"][sheet]

\* C29: the CSS extraction of a stylesheet URL is performed at most once in
\* a run, the counting pass and the crawl taken together (examined on the
\* runs in which no request has failed).
C29_ExtractedOnce ==
  failures = 0 => \A sheet \in Stylesheets : Extractions(sheet) <= 1

\* The outcomes reported for the resource tasks so far.
OutcomeCount == Total([t \in Tasks |-> Len(emitted[t])], Tasks)

\* The progress publications of the workers so far: _update_progress is
\* called in one place, once after each downloaded_resources += 1.
Publications == downloaded_resources

\* C26: every outcome of a resource task (downloaded, already downloaded,
\* skipped, failed) is followed by a progress publication; when the pool
\* of a run that was not stopped has drained, there are as many publications
\* as outcomes.
C26_PublishedAfterEveryOutcome ==
  (~stop_event /\ pc \in {"rewrite", "final", "done"}) => Publications >= OutcomeCount

\* A submitted resource task has not ended.
TaskInFlight == pending # <<>> \/ \E w \in Workers : pool[w].pc # "idle"

\* An HTML file of the output directory is rewritten in this step.
RewriteStep ==
  \E p \in DOMAIN files :
    /\ p \in DOMAIN files' /\ files'[p].url = files[p].url
    /\ files'[p].attrs # files[p].attrs

OutcomesOf(status, S) ==
  Total([t \in Tasks |-> Cardinality({i \in 1..Len(emitted[t]) : emitted[t][i] = status})], S)

\* C28: no update of the shared run state is lost: when the pool has drained,
\* downloaded_resources is the number of 'downloaded' outcomes,
\* images_downloaded the number of them whose resource is an image, and the
\* downloaded and failed sets hold every URL reported as such.
C28_NoLostUpdate ==
  pc \in {"rewrite", "final", "done"} =>
    /\ downloaded_resources = OutcomesOf("downloaded", Tasks)
    /\ images_downloaded = OutcomesOf("downloaded", {t \in Tasks : IsImage(t[1])})
    /\ \A t \in Tasks : OutcomesOf("downloaded", {t}) > 0 => t[1] \in download_cache
    /\ \A t \in Tasks : OutcomesOf("failed", {t}) > 0 => t[1] \in failed_downloads

(***************************************************************************)
(* The progress computation on its own: the counters hold any values up to *)
(* MaxCount (a site of that many resources), both workers have just saved  *)
(* a resource and are about to count it and publish the progress.          *)
(***************************************************************************)
ProgressInit ==
  /\ cfg = DefaultConfig
  /\ stop_event = FALSE
  /\ pause_event = TRUE
  /\ visited_urls = {} /\ counted_urls = {}
  /\ total_resources \in 0..MaxCount /\ downloaded_resources \in 0..MaxCount
  /\ download_cache = {} /\ failed_downloads = {}
  /\ pages_crawled = 0 /\ images_downloaded = 0
  /\ resource_queue = {}
  /\ pc = "shutdown" /\ seed = 1 /\ stack = <<>> /\ unsubmitted = {}
  /\ pending = <<>>
  /\ pool = [w \in 1..cfg.concurrency |->
               [IdleWorker EXCEPT !.pc = "count", !.url = Css, !.page = SeedA]]
  /\ finished = <<>>
  /\ failures = 0
  /\ loads = [p \in Passes |-> [u \in PageURLs \cup Stylesheets |-> 0]]
  /\ writes = [u \in URLs |-> 0]
  /\ lastProgress = NoProgress
  /\ emitted = [t \in Tasks |-> <<>>]
  /\ message = ""
  /\ files = <<>>
  /\ stop_pressed = FALSE /\ ripper = IdleRipper

ProgressNext == \E w \in Workers : CountDownloaded(w)

ProgressSpec == ProgressInit /\ [][ProgressNext]_vars

\* min(100, floor(downloaded * 100 / total)), and 100 when total is 0.
FloorPercent(downloaded, total) ==
  IF total = 0 THEN 100
  ELSE IF (downloaded * 100) \div total > 100 THEN 100
  ELSE (downloaded * 100) \div total

\* C25: every published progress value is an integer in 0..100 and equals
\* min(100, floor(downloaded_resources * 100 / total_resources)) for the
\* counters at the publication, 100 when total_resources is 0.
C25_ProgressIsFloorPercent ==
  lastProgress # NoProgress =>
    /\ lastProgress.value \in 0..100
    /\ lastProgress.value = FloorPercent(lastProgress.downloaded, lastProgress.total)

(***************************************************************************)
(* A second run.  The first run, under DefaultConfig and with no request   *)
(* failing, has ended with success; it left cache.json and its files in    *)
(* the output directory.  A new WebDownloader is built on the same         *)
(* directory: load_cache fills download_cache and failed_downloads from    *)
(* cache.json, and download_websites finds the directory in place.         *)
(***************************************************************************)
\* The 'downloaded' list of cache.json after the first run.
FirstRunCache == {Css, Img}

\* The output directory after the first run.
FirstRunFiles ==
  (<<"a", "s.css">> :> [url |-> Css, attrs |-> {}]) @@
  (<<"a", "i.png">> :> [url |-> Img, attrs |-> {}]) @@
  (<<"a", IndexHtml>> :>
     [url |-> SeedA,
      attrs |-> {[target |-> PageA1, form |-> "local", ref |-> <<"p1", IndexHtml>>],
                 [target |-> SeedB, form |-> "absolute", ref |-> <<>>],
                 [target |-> Mail, form |-> "absolute", ref |-> <<>>],
                 [target |-> Css, form |-> "relative", ref |-> <<"s.css">>],
                 [target |-> Dyn, form |-> "absolute", ref |-> <<>>]}]) @@
  (<<"a", "p1", IndexHtml>> :>
     [url |-> PageA1,
      attrs |-> {[target |-> SeedA, form |-> "local", ref |-> <<"..", IndexHtml>>],
                 [target |-> PageA2, form |-> "root", ref |-> <<"p2">>],
                 [target |-> Img, form |-> "relative", ref |-> <<"i.png">>]}])

\* The state in which the first run can end.
FirstRunEnded ==
  /\ cfg = DefaultConfig /\ finished = <<TRUE>>
  /\ download_cache = FirstRunCache /\ failed_downloads = {}
  /\ files = FirstRunFiles

RerunInit ==
  /\ cfg = DefaultConfig
  /\ stop_event = FALSE
  /\ pause_event = TRUE
  /\ visited_urls = {} /\ counted_urls = {}
  /\ total_resources = 0 /\ downloaded_resources = 0
  /\ download_cache = FirstRunCache /\ failed_downloads = {}
  /\ pages_crawled = 0 /\ images_downloaded = 0
  /\ resource_queue = {}
  /\ pc = "count" /\ seed = 1 /\ stack = <<>> /\ unsubmitted = {}
  /\ pending = <<>>
  /\ pool = [w \in 1..cfg.concurrency |-> IdleWorker]
  /\ finished = <<>>
  /\ failures = 0
  /\ loads = [p \in Passes |-> [u \in PageURLs \cup Stylesheets |-> 0]]
  /\ writes = [u \in URLs |-> 0]
  /\ lastProgress = NoProgress
  /\ emitted = [t \in Tasks |-> <<>>]
  /\ message = ""
  /\ files = FirstRunFiles
  /\ stop_pressed = FALSE /\ ripper = IdleRipper

\* Every resource the crawl of the second run finds is in download_cache, so
\* nothing is appended to resource_queue and the workers get no task.
RerunNext ==
  \/ CountSeed \/ CountLink \/ CountLoaded \/ CountCss
  \/ CrawlSeed \/ CrawlLink \/ CrawlLoaded \/ CrawlCss
  \/ Submit \/ Shutdown \/ FinalRewrite \/ Finish
  \/ Stop \/ Pause \/ Resume

RerunSpec == RerunInit /\ [][RerunNext]_vars

\* C21: in the second run no body is requested for a resource URL that the
\* cache of the first run records, stylesheets included, and a second run
\* that succeeds leaves the files of the first run as they were.
C21_RerunDownloadsNothingCached ==
  /\ \A u \in InFlight : u \notin FirstRunCache
  /\ finished = <<TRUE>> => files = FirstRunFiles

(***************************************************************************)
(* A run that nobody stops.  The threads of the engine are scheduled       *)
(* fairly; a pause is followed by a resume; and a worker that waits in     *)
(* pause_event.wait() leaves it when the event is set, even if the event   *)
(* is cleared again right away (Event.set notifies the waiters, and a      *)
(* notified waiter returns).                                               *)
(***************************************************************************)
UnstoppedNext ==
  \/ MakeDirs
  \/ CountSeed \/ CountLink \/ CountLoaded \/ CountCss
  \/ CrawlSeed \/ CrawlLink \/ CrawlLoaded \/ CrawlCss
  \/ Submit \/ Shutdown \/ FinalRewrite \/ Finish
  \/ \E w \in Workers : TaskStart(w)
  \/ \E w \in Workers : Gate(w)
  \/ \E w \in Workers : HeadDone(w)
  \/ \E w \in Workers : Backoff(w)
  \/ \E w \in Workers : GetDone(w)
  \/ \E w \in Workers : Save(w)
  \/ \E w \in Workers : Record(w)
  \/ \E w \in Workers : CountDownloaded(w)
  \/ Pause \/ Resume

\* The runs examined for termination: crawls of depth 0 (one and two seeds,
\* two workers), the crawl of depth 1 without retries and the crawl of
\* depth 2 under robots rules.
UnstoppedInit ==
  /\ Init
  /\ cfg.max_depth = 0 \/ cfg.retries = 0 \/ cfg.robots_txt

UnstoppedSpec ==
  /\ UnstoppedInit /\ [][UnstoppedNext]_vars
  /\ WF_vars(MainNext)
  /\ \A w \in 1..2 : SF_vars(w \in Workers /\ WorkerNext(w))
  /\ WF_vars(~pause_event /\ Resume)

\* C30: a run that is never stopped and whose pauses are all followed by a
\* resume ends: the passes, the pool and the rewrite finish, and the finished
\* signal is emitted, once.
C30_RunTerminates ==
  /\ <>(pc = "done" /\ stack = <<>> /\ ~TaskInFlight /\ finished # <<>>)
  /\ [][finished # <<>> => finished' = finished]_vars

\* C30 witness: a run has ended with success after a page load failed, a
\* resource failed for good and another was downloaded, with the front end
\* paused at the end.
C30_Witness ==
  /\ finished = <<TRUE>> /\ pc = "done"
  /\ failed_downloads # {} /\ downloaded_resources > 0
  /\ ~pause_event

(***************************************************************************)
(* The modular front end.  HomeWidget builds its stop event only if the    *)
(* name threading is among the globals of ui/home.py, and hands what it    *)
(* has to the DownloaderThread; the engine reads                           *)
(* `self.stop_event and self.stop_event.is_set()`, which stop_event stands *)
(* for.                                                                    *)
(***************************************************************************)
\* ui/home.py imports time, os, the managers and DownloaderThread; it has no
\* `import threading`.
ThreadingImported == FALSE

\* HomeWidget.stop_download while the downloader thread is running: the
\* event is set if the widget has one, and the status line is updated.
HomeStop ==
  /\ Running
  /\ stop_event' = IF ThreadingImported THEN TRUE ELSE stop_event
  /\ stop_pressed' = TRUE
  /\ UNCHANGED <<cfg, ripper, pause_event, engineVars, mainVars, poolVars, ghostVars>>

HomeNext == UnstoppedNext \/ HomeStop

\* Runs of depth 0 started from the Home tab.
HomeInit == Init /\ cfg.max_depth = 0

HomeSpec == HomeInit /\ [][HomeNext]_vars

\* C31: once Stop was pressed in the Home tab while the download thread was
\* running, the stop signal that the engine's stop checks read is set.
C31_HomeStopSetsSignal == stop_pressed => stop_event

\* C32: the page limit stops the crawl only: the loop over the queued
\* resources does not end with resources left over unless the run was
\* stopped or a resource limit was reached.
C32_PageLimitKeepsResources ==
  [][(pc = "submit" /\ pc' = "shutdown" /\ cfg.max_pages > 0
        /\ ~stop_event /\ ~should_stop_downloading_resources)
       => unsubmitted = {}]_vars

\* C34: a resource task that has passed the stop, limit, dedup and scope
\* checks and waits at the pause gate is not reported as failed in the step
\* that takes it from there: a request comes first.
C34_RequestBeforeFailed ==
  [][\A w \in Workers :
       (pool[w].pc = "gate" /\ pool'[w].pc = "idle")
         => emitted'[TaskOf(w)] = emitted[TaskOf(w)]]_vars

(***************************************************************************)
(* A run that finds a cache.json of an earlier run in the working          *)
(* directory (CACHE_FILE is a relative path, whatever download_path is)    *)
(* and writes to an output directory that is still empty: the earlier run  *)
(* wrote elsewhere and downloaded the image, or it failed on the           *)
(* stylesheet.                                                             *)
(***************************************************************************)
\* The 'downloaded' and 'failed' lists cache.json can hold.
CacheFiles == {<<{Img}, {}>>, <<{}, {Css}>>}

\* The state after construction with configuration c and the lists
\* cache.json holds.
Constructed(c, cache) ==
  /\ cfg = c
  /\ stop_event = FALSE
  /\ pause_event = TRUE
  /\ visited_urls = {} /\ counted_urls = {}
  /\ total_resources = 0 /\ downloaded_resources = 0
  /\ download_cache = cache[1] /\ failed_downloads = cache[2]
  /\ pages_crawled = 0 /\ images_downloaded = 0
  /\ resource_queue = {}
  /\ pc = "start" /\ seed = 1 /\ stack = <<>> /\ unsubmitted = {}
  /\ pending = <<>>
  /\ pool = [w \in 1..c.concurrency |-> IdleWorker]
  /\ finished = <<>>
  /\ failures = 0
  /\ loads = [p \in Passes |-> [u \in PageURLs \cup Stylesheets |-> 0]]
  /\ writes = [u \in URLs |-> 0]
  /\ lastProgress = NoProgress
  /\ emitted = [t \in Tasks |-> <<>>]
  /\ message = ""
  /\ files = <<>>
  /\ stop_pressed = FALSE /\ ripper = IdleRipper

CachedInit ==
  \E cache \in CacheFiles : Constructed([DefaultConfig EXCEPT !.max_depth = 0], cache)

CachedSpec == CachedInit /\ [][Next]_vars

\* What _parse_resources returns for a page when every stylesheet is received.
Discovered(page) ==
  Range(StylesheetsToParse(page))
    \cup UNION {_parse_css_resources(sheet) : sheet \in Range(StylesheetsToParse(page))}
    \cup OtherResources(page)

\* C33: after a run that was not stopped and in which no request failed,
\* every resource discovered on a saved page has its file in the output
\* directory, whatever the cache of an earlier run lists.
C33_DiscoveredResourcesExist ==
  (finished = <<TRUE>> /\ failures = 0) =>
    \A p \in DOMAIN files :
      IsHtml(p) => \A r \in Discovered(files[p].url) : Exists(_get_relative_path(r))

\* C35: the failed set of an earlier run does not keep a resource from being
\* attempted: after a run that was not stopped and in which no request
\* failed, every resource the crawl queued has been written.
C35_FailedSetNotInherited ==
  (finished = <<TRUE>> /\ failures = 0) =>
    \A t \in resource_queue : writes[t[1]] > 0

(***************************************************************************)
(* Runs on two seeds: the site and one of its subdomains, and the two      *)
(* addresses of the front page of the other site.                          *)
(***************************************************************************)
SeedConfigs ==
  { [DefaultConfig EXCEPT !.base_urls = <<SeedA, Sub>>, !.max_depth = 0],
    [DefaultConfig EXCEPT !.base_urls = <<SeedB, SeedB2>>, !.max_depth = 0] }

SeedsInit == \E c \in SeedConfigs : Constructed(c, <<{}, {}>>)

SeedsSpec == SeedsInit /\ [][Next]_vars

\* The hosts of the site that are a subdomain of another of its hosts.
Subdomains == {<<"s.a", "a">>}

\* The main thread calls a page function in this step: on the next seed, or
\* on the next link of the page on top.
PageCalled ==
  /\ pc \in Passes
  /\ \/ stack = <<>> /\ seed' = seed + 1
     \/ /\ stack # <<>> /\ Top.phase = "links" /\ Top.links # <<>>
        /\ stack' # stack /\ Len(stack') >= Len(stack)

\* C36: with subdomain inclusion enabled, a page on a subdomain of the base
\* host passes the host check although external links are not followed: a
\* call on it that the other checks admit loads the page.
C36_SubdomainAccepted ==
  [][(/\ PageCalled
      /\ cfg.include_subdomains /\ ~cfg.follow_external_links
      /\ <<URLInfo(NextPage.url).netloc, URLInfo(cfg.base_urls[1]).netloc>> \in Subdomains
      /\ ~should_stop_crawl /\ ~DepthExceeded(NextPage.depth)
      /\ URLInfo(NextPage.url).scheme \in HttpSchemes
      /\ ~AlreadySeen(pc, NextPage.url)
      /\ ~stop_event /\ ~Excluded(NextPage.url) /\ ~cfg.robots_txt)
       => PageLoadStarts]_vars

\* C37: with the "keep" layout, two different pages visited in one run are
\* saved under different local paths.
C37_DistinctPagePaths ==
  cfg.download_structure = "keep" =>
    \A u, v \in visited_urls \cap PageURLs :
      u # v => _get_relative_path(u) # _get_relative_path(v)

\* C38: the progress values published while resources are downloaded never
\* decrease, whatever the interleaving of the workers.
C38_ProgressNonDecreasing ==
  [][lastProgress'.value >= lastProgress.value]_vars

\* Two workers have published, the second after the first.
C38_Witness ==
  /\ cfg.concurrency = 2
  /\ lastProgress.downloaded >= 2
  /\ lastProgress.value > 0
  /\ \E w \in Workers : pool[w].pc = "count"

(***************************************************************************)
(* ImageRipper: download_images on the ripper thread, stop() from the      *)
(* front end.  The test of stop_event that precedes a request and the      *)
(* start of the request are one step.                                      *)
(***************************************************************************)
MaxSheets == 1
MaxImages == 3

\* max_retries of ImageRipper.__init__; ImageRipperThread passes none.
RipperRetries == 3

\* What the ripper thread leaves alone.
engineSide ==
  <<cfg, stop_event, pause_event, engineVars, mainVars, poolVars, ghostVars, stop_pressed>>

RipperInit == Constructed(DefaultConfig, <<{}, {}>>)

\* download_images is called: an URL that is not http(s) ends it at once;
\* otherwise get_rendered_html calls fetch_page(self.url).
RipStart ==
  /\ ripper.pc = "idle"
  /\ \E valid \in BOOLEAN :
       ripper' = IF valid THEN [ripper EXCEPT !.pc = "try", !.what = "page", !.attempt = 0]
                 ELSE [ripper EXCEPT !.pc = "done"]
  /\ UNCHANGED engineSide

\* ImageRipper.stop(), called by the front end while the thread runs.
RipStop ==
  /\ ripper.pc \notin {"idle", "done"}
  /\ ~ripper.stop
  /\ ripper' = [ripper EXCEPT !.stop = TRUE]
  /\ UNCHANGED engineSide

\* images = list(set(images)) after the extractors and filters have run: no
\* image ends download_images, otherwise the loop over the images starts.
Counted(r) ==
  \E f \in 0..MaxImages :
    ripper' = IF f = 0 THEN [r EXCEPT !.pc = "done"]
              ELSE [r EXCEPT !.found = f, !.i = 0, !.pc = "loop"]

\* fetch_page or fetch_resource returns to its caller, with a response or
\* with None.
FetchReturned(ok) ==
  CASE ripper.what = "page" ->
         IF ~ok THEN ripper' = [ripper EXCEPT !.pc = "done"]
         ELSE \E n \in 0..MaxSheets :
                IF n > 0
                  THEN ripper' = [ripper EXCEPT !.sheets = n, !.what = "css",
                                                !.attempt = 0, !.pc = "try"]
                  ELSE Counted(ripper)
    [] ripper.what = "css" ->
         LET r == [ripper EXCEPT !.sheets = @ - 1]
         IN  IF r.sheets > 0
               THEN ripper' = [r EXCEPT !.attempt = 0, !.pc = "try"]
               ELSE Counted(r)
    [] ripper.what = "image" ->
         ripper' = [ripper EXCEPT !.progress = IntOfPercent(ripper.i, ripper.found),
                                  !.pc = "loop"]

\* Mutant: the retry loop does not test stop_event.
RipTryNoStopTest ==
  /\ ripper.pc = "try"
  /\ IF ripper.attempt = RipperRetries
       THEN FetchReturned(FALSE)
       ELSE ripper' = [ripper EXCEPT !.pc = "get"]
  /\ UNCHANGED engineSide

\* The head of `for attempt in range(self.max_retries)`: the loop is
\* exhausted, or stop_event is set, or session.get is called.
RipTry ==
  /\ ripper.pc = "try"
  /\ IF ripper.attempt = RipperRetries \/ ripper.stop
       THEN FetchReturned(FALSE)
       ELSE ripper' = [ripper EXCEPT !.pc = "get"]
  /\ UNCHANGED engineSide

\* session.get and raise_for_status end: the response is returned, or a
\* RequestException is logged and the loop goes on after the sleep.
RipAnswer ==
  /\ ripper.pc = "get"
  /\ \E ok \in BOOLEAN :
       IF ok THEN FetchReturned(TRUE)
       ELSE ripper' = [ripper EXCEPT !.attempt = @ + 1, !.pc = "try"]
  /\ UNCHANGED engineSide

\* The head of the loop over the images of download_images.
RipLoop ==
  /\ ripper.pc = "loop"
  /\ ripper' = IF ripper.i = ripper.found \/ ripper.stop
                 THEN [ripper EXCEPT !.pc = "done"]
                 ELSE [ripper EXCEPT !.i = @ + 1, !.pc = "image"]
  /\ UNCHANGED engineSide

\* download_image(img_url, i): False at once when stop_event is set,
\* otherwise fetch_resource(img_url); the progress is published after it
\* returned.
RipImage ==
  /\ ripper.pc = "image"
  /\ ripper' = IF ripper.stop
                 THEN [ripper EXCEPT !.progress = IntOfPercent(ripper.i, ripper.found),
                                     !.pc = "loop"]
                 ELSE [ripper EXCEPT !.what = "image", !.attempt = 0, !.pc = "try"]
  /\ UNCHANGED engineSide

RipperNext == RipStart \/ RipStop \/ RipTry \/ RipAnswer \/ RipLoop \/ RipImage

RipperSpec == RipperInit /\ [][RipperNext]_vars

====
